---- MODULE Spec2Model ----
(***************************************************************************)
(* base62num (src/src/lib.rs): encode(usize) -> String and                 *)
(* decode(&str) -> Result<usize, Base62Error>.                             *)
(*                                                                         *)
(* A Rust string is a sequence of chars; a char is a one-character TLA+    *)
(* string.  usize is an unsigned integer of BITS bits.  Option and Result  *)
(* values are records.  The two functions are run one loop iteration per   *)
(* step; `last` records the previous completed call so that properties     *)
(* relating two calls (round trips, monotonicity) are state predicates.    *)
(***************************************************************************)
EXTENDS Integers, Sequences, FiniteSets, TLC

\* ------------------------------------------------------------------ bounds
\* width of usize in the model (usize::BITS)
BITS == 12
\* longest input string built from SampleChars
MaxLen == 4

RECURSIVE Pow(_, _)
Pow(b, k) == IF k = 0 THEN 1 ELSE b * Pow(b, k - 1)

\* usize::MAX
MAX == Pow(2, BITS) - 1

\* --------------------------------------------------------------- constants
\* the alphabet with the digits placed before the letters
ALPHANUMERIC_digits_first ==
  << "0","1","2","3","4","5","6","7","8","9",
     "A","B","C","D","E","F","G","H","I","J","K","L","M",
     "N","O","P","Q","R","S","T","U","V","W","X","Y","Z",
     "a","b","c","d","e","f","g","h","i","j","k","l","m",
     "n","o","p","q","r","s","t","u","v","w","x","y","z" >>

ALPHANUMERIC ==
  << "A","B","C","D","E","F","G","H","I","J","K","L","M",
     "N","O","P","Q","R","S","T","U","V","W","X","Y","Z",
     "a","b","c","d","e","f","g","h","i","j","k","l","m",
     "n","o","p","q","r","s","t","u","v","w","x","y","z",
     "0","1","2","3","4","5","6","7","8","9" >>

BASE == 62

\* ------------------------------------------------------ Option and Result
Some(v) == [some |-> TRUE, val |-> v]
None == [some |-> FALSE]
Ok(v) == [ok |-> TRUE, val |-> v]
Err(e) == [ok |-> FALSE, err |-> e]

NonAlphanumeric == "NonAlphanumeric"
Overflow == "Overflow"

\* ---------------------------------------------------------------- helpers
\* nth counted from one instead of zero
to_char_off_by_one(num) ==
  IF num + 1 < Len(ALPHANUMERIC) THEN Some(ALPHANUMERIC[num + 2]) ELSE None

\* ALPHANUMERIC.chars().nth(num)
to_char(num) ==
  IF num < Len(ALPHANUMERIC) THEN Some(ALPHANUMERIC[num + 1]) ELSE None

\* unwrap_or(0) in place of ok_or(NonAlphanumeric)
to_num_lenient(c) ==
  LET hits == {i \in 1..Len(ALPHANUMERIC) : ALPHANUMERIC[i] = c}
  IN IF hits = {} THEN Ok(0)
     ELSE Ok((CHOOSE i \in hits : \A j \in hits : i <= j) - 1)

\* ALPHANUMERIC.find(|x| x == c).ok_or(NonAlphanumeric): index of first match
to_num(c) ==
  LET hits == {i \in 1..Len(ALPHANUMERIC) : ALPHANUMERIC[i] = c}
  IN IF hits = {} THEN Err(NonAlphanumeric)
     ELSE Ok((CHOOSE i \in hits : \A j \in hits : i <= j) - 1)

\* wrapping_mul in place of checked_mul
checked_mul_wrapping(a, b) == Some((a * b) % (MAX + 1))

\* usize::checked_mul
checked_mul(a, b) == IF a * b > MAX THEN None ELSE Some(a * b)

\* checked_add that also rejects a sum equal to usize::MAX
checked_add_strict(a, b) == IF a + b >= MAX THEN None ELSE Some(a + b)

\* usize::checked_add
checked_add(a, b) == IF a + b > MAX THEN None ELSE Some(a + b)

\* the closure with the arithmetic attempted before the character is looked up
DecodeClosure_arith_first(acc, c) ==
  LET mul == checked_mul(acc, BASE)
      r == to_num(c)
  IN IF ~mul.some THEN Err(Overflow)
     ELSE IF ~r.ok THEN r
     ELSE LET sum == checked_add(mul.val, r.val)
          IN IF sum.some THEN Ok(sum.val) ELSE Err(Overflow)

\* the closure folded over the chars of the input by decode
DecodeClosure(acc, c) ==
  LET r == to_num(c)
  IN IF ~r.ok THEN r
     ELSE LET mul == checked_mul(acc, BASE)
              sum == IF mul.some THEN checked_add(mul.val, r.val) ELSE None
          IN IF sum.some THEN Ok(sum.val) ELSE Err(Overflow)

\* initial accumulator of the fold
DecodeInitAcc == 0

\* while n >= BASE: the most significant digit is never pushed
EncodeLoopCond_ge_base(n) == n >= BASE

\* while n > 0
EncodeLoopCond(n) == n > 0

\* let rem = n % BASE
EncodeRem(n) == n % BASE

\* n = (n - rem) / BASE
EncodeQuot(n, rem) == (n - rem) \div BASE

\* a push that drops zero digits
EncodePush_skip_zero(digits, c) ==
  IF c = ALPHANUMERIC[1] THEN digits ELSE Append(digits, c)

\* Some(c) => digits.push(c)
EncodePush(digits, c) == Append(digits, c)

\* zero rendered as the single zero digit instead of the empty string
EncodeCollect_zero_digit(digits) ==
  IF digits = << >> THEN << ALPHANUMERIC[1] >>
  ELSE [i \in 1..Len(digits) |-> digits[Len(digits) + 1 - i]]

\* collect without rev
EncodeCollect_no_rev(digits) == digits

\* digits.iter().rev().collect()
EncodeCollect(digits) ==
  [i \in 1..Len(digits) |-> digits[Len(digits) + 1 - i]]

\* ------------------------------------------------------------------ inputs
\* characters outside the alphabet offered to decode
BadChars == {"*", "-"}

AlphaChars == {ALPHANUMERIC[i] : i \in 1..Len(ALPHANUMERIC)}

\* characters of the longer input strings: digit values 0, 1, 4, 5, 61 and
\* one character outside the alphabet
SampleChars == {"A", "B", "E", "F", "9", "*"}

InputStrings ==
  UNION {[1..k -> AlphaChars \cup BadChars] : k \in 0..2}
    \cup UNION {[1..k -> SampleChars] : k \in 3..MaxLen}

\* numbers around the digit-length boundaries, offered as a second argument
\* after a completed encode
Boundary == {0, 1, BASE - 1, BASE, BASE * BASE - 1, BASE * BASE, MAX}

\* ------------------------------------------------------------------- state
VARIABLES pc, num, n, digits, encoded, input, pos, acc, decoded, last

vars == <<pc, num, n, digits, encoded, input, pos, acc, decoded, last>>

NoCall == [fn |-> "none"]

\* the call that has just returned, as the next call will remember it
Completed ==
  IF pc = "encode_ret" THEN [fn |-> "encode", num |-> num, ret |-> encoded]
  ELSE IF pc = "decode_ret"
       THEN [fn |-> "decode", input |-> input, ret |-> decoded]
       ELSE NoCall

Init ==
  /\ pc = "idle"
  /\ num = 0
  /\ n = 0
  /\ digits = << >>
  /\ encoded = << >>
  /\ input = << >>
  /\ pos = 0
  /\ acc = 0
  /\ decoded = Ok(0)
  /\ last = NoCall

\* arguments a caller passes to encode in the current state
EncodeArgs ==
  IF pc = "idle" THEN 0..MAX
  ELSE IF pc = "encode_ret" THEN ({num + 1} \cup Boundary) \cap (0..MAX)
  ELSE IF pc = "decode_ret" /\ decoded.ok THEN {decoded.val}
  ELSE {}

\* arguments a caller passes to decode in the current state
DecodeArgs ==
  IF pc = "idle" THEN InputStrings
  ELSE IF pc = "encode_ret" THEN {encoded}
  ELSE {}

\* encode(num): let mut digits = vec![]; let mut n = num;
CallEncode ==
  \E a \in EncodeArgs :
    /\ last' = Completed
    /\ pc' = "encode_loop"
    /\ num' = a
    /\ n' = a
    /\ digits' = << >>
    /\ encoded' = << >>
    /\ input' = << >>
    /\ pos' = 0
    /\ acc' = 0
    /\ decoded' = Ok(0)

\* one iteration of the while loop of encode
EncodeStep ==
  /\ pc = "encode_loop"
  /\ EncodeLoopCond(n)
  /\ LET rem == EncodeRem(n)
         c == to_char(rem)
     IN /\ n' = EncodeQuot(n, rem)
        /\ IF c.some
           THEN /\ digits' = EncodePush(digits, c.val)
                /\ pc' = pc
           ELSE /\ digits' = digits
                /\ pc' = "panic"
  /\ UNCHANGED <<num, encoded, input, pos, acc, decoded, last>>

\* loop exit of encode and the returned string
EncodeReturn ==
  /\ pc = "encode_loop"
  /\ ~EncodeLoopCond(n)
  /\ encoded' = EncodeCollect(digits)
  /\ pc' = "encode_ret"
  /\ UNCHANGED <<num, n, digits, input, pos, acc, decoded, last>>

\* decode(input): input.chars().try_fold(0 as usize, ...)
CallDecode ==
  \E s \in DecodeArgs :
    /\ last' = Completed
    /\ pc' = "decode_fold"
    /\ input' = s
    /\ pos' = 0
    /\ acc' = DecodeInitAcc
    /\ decoded' = Ok(0)
    /\ num' = 0
    /\ n' = 0
    /\ digits' = << >>
    /\ encoded' = << >>

\* try_fold takes the next char and applies the closure; an Err ends the fold
DecodeStep ==
  /\ pc = "decode_fold"
  /\ pos < Len(input)
  /\ LET r == DecodeClosure(acc, input[pos + 1])
     IN /\ pos' = pos + 1
        /\ IF r.ok
           THEN /\ acc' = r.val
                /\ decoded' = decoded
                /\ pc' = pc
           ELSE /\ acc' = acc
                /\ decoded' = r
                /\ pc' = "decode_ret"
  /\ UNCHANGED <<num, n, digits, encoded, input, last>>

\* the chars are exhausted: try_fold returns Ok(acc)
DecodeReturn ==
  /\ pc = "decode_fold"
  /\ pos = Len(input)
  /\ decoded' = Ok(acc)
  /\ pc' = "decode_ret"
  /\ UNCHANGED <<num, n, digits, encoded, input, pos, acc, last>>

Next ==
  \/ CallEncode
  \/ EncodeStep
  \/ EncodeReturn
  \/ CallDecode
  \/ DecodeStep
  \/ DecodeReturn

Spec == Init /\ [][Next]_vars

\* a call of encode runs to completion
LiveSpec == Spec /\ WF_vars(EncodeStep) /\ WF_vars(EncodeReturn)

TypeOK ==
  /\ pc \in {"idle", "encode_loop", "encode_ret", "decode_fold", "decode_ret", "panic"}
  /\ num \in 0..MAX
  /\ n \in 0..MAX
  /\ acc \in 0..MAX
  /\ pos \in 0..Len(input)

\* ------------------------------------------------------ reference notions
\* the alphabet as the specification describes it: 'A'..'Z' are 0..25,
\* 'a'..'z' are 26..51 and '0'..'9' are 52..61
UpperCase ==
  << "A","B","C","D","E","F","G","H","I","J","K","L","M",
     "N","O","P","Q","R","S","T","U","V","W","X","Y","Z" >>

LowerCase ==
  << "a","b","c","d","e","f","g","h","i","j","k","l","m",
     "n","o","p","q","r","s","t","u","v","w","x","y","z" >>

Digits == << "0","1","2","3","4","5","6","7","8","9" >>

IsSymbol(c) ==
  \/ \E i \in 1..26 : UpperCase[i] = c
  \/ \E i \in 1..26 : LowerCase[i] = c
  \/ \E i \in 1..10 : Digits[i] = c

\* digit value of a symbol
DigitValue(c) ==
  IF \E i \in 1..26 : UpperCase[i] = c
  THEN (CHOOSE i \in 1..26 : UpperCase[i] = c) - 1
  ELSE IF \E i \in 1..26 : LowerCase[i] = c
       THEN (CHOOSE i \in 1..26 : LowerCase[i] = c) + 25
       ELSE (CHOOSE i \in 1..10 : Digits[i] = c) + 51

\* symbol of a digit value in 0..61
SymbolAt(d) ==
  IF d < 26 THEN UpperCase[d + 1]
  ELSE IF d < 52 THEN LowerCase[d - 25]
  ELSE Digits[d - 51]

AllSymbols(s) == \A i \in 1..Len(s) : IsSymbol(s[i])

\* positional value of a string of symbols, most significant digit first
RECURSIVE ValueFrom(_, _)
ValueFrom(s, i) ==
  IF i > Len(s) THEN 0
  ELSE DigitValue(s[i]) * Pow(BASE, Len(s) - i) + ValueFrom(s, i + 1)

Value(s) == ValueFrom(s, 1)

Prefix(s, k) == SubSeq(s, 1, k)

\* first position of s at which scanning from the left meets a character
\* outside the alphabet or a prefix whose value exceeds MAX; 0 if none
RECURSIVE FirstFailure(_, _)
FirstFailure(s, i) ==
  IF i > Len(s) THEN 0
  ELSE IF ~IsSymbol(s[i]) \/ Value(Prefix(s, i)) > MAX THEN i
  ELSE FirstFailure(s, i + 1)

\* first position of s holding a character outside the alphabet; 0 if none
RECURSIVE FirstBad(_, _)
FirstBad(s, i) ==
  IF i > Len(s) THEN 0
  ELSE IF ~IsSymbol(s[i]) THEN i
  ELSE FirstBad(s, i + 1)

\* s without its leading 'A' characters
RECURSIVE StripLeadingA(_)
StripLeadingA(s) ==
  IF s # << >> /\ s[1] = "A" THEN StripLeadingA(Tail(s)) ELSE s

\* number of base-62 digits of m (0 has none)
RECURSIVE DigitCountFrom(_, _)
DigitCountFrom(m, k) ==
  IF Pow(BASE, k) > m THEN k ELSE DigitCountFrom(m, k + 1)

DigitCount(m) == DigitCountFrom(m, 0)

\* ------------------------------------------------------------------ claims

\* C1: for every n in 1..MAX, decode(encode(n)) returns Ok(n), never an
\* error, including for n = MAX.
C1_RoundTrip ==
  (pc = "decode_ret" /\ last.fn = "encode" /\ last.num >= 1 /\ input = last.ret)
    => decoded = Ok(last.num)

C1_Witness ==
  /\ pc = "decode_ret"
  /\ last.fn = "encode"
  /\ last.num = MAX
  /\ input = last.ret
  /\ decoded = Ok(MAX)

\* C2: encode(0) returns the empty string after zero loop iterations,
\* decode of the empty string returns Ok(0), and so decode(encode(0)) = Ok(0).
C2_ZeroEmpty ==
  /\ (pc = "encode_ret" /\ num = 0) => (encoded = << >> /\ digits = << >>)
  /\ (pc = "decode_ret" /\ input = << >>) => decoded = Ok(0)
  /\ (pc = "decode_ret" /\ last.fn = "encode" /\ last.num = 0)
       => (input = << >> /\ decoded = Ok(0))

C2_Witness ==
  /\ pc = "decode_ret"
  /\ last.fn = "encode"
  /\ last.num = 0
  /\ last.ret = << >>
  /\ input = << >>
  /\ decoded = Ok(0)

\* C3 as stated: decode of any string holding a character outside the
\* alphabet returns Err(NonAlphanumeric), whatever the other characters are.
C3_Original ==
  (pc = "decode_ret" /\ FirstBad(input, 1) # 0)
    => decoded = Err(NonAlphanumeric)

\* C3 amended: decode of a string holding a character outside the alphabet
\* never succeeds; it returns Err(NonAlphanumeric) unless the symbols before
\* the first such character already have a value above MAX, and then it
\* returns Err(Overflow).
C3_Amended ==
  (pc = "decode_ret" /\ FirstBad(input, 1) # 0)
    => decoded = IF Value(Prefix(input, FirstBad(input, 1) - 1)) > MAX
                 THEN Err(Overflow)
                 ELSE Err(NonAlphanumeric)

C3_Witness ==
  /\ pc = "decode_ret"
  /\ Len(input) >= 3
  /\ FirstBad(input, 1) = 2
  /\ IsSymbol(input[3])
  /\ decoded = Err(NonAlphanumeric)

\* C4: for every string of symbols, decode returns Err(Overflow) when the
\* positional value of the string exceeds MAX and Ok(value) when it does not,
\* leading 'A' characters included.
C4_OverflowExact ==
  (pc = "decode_ret" /\ AllSymbols(input))
    => decoded = IF Value(input) > MAX THEN Err(Overflow) ELSE Ok(Value(input))

C4_Witness ==
  /\ pc = "decode_ret"
  /\ AllSymbols(input)
  /\ Len(input) >= 3
  /\ input[1] = "A"
  /\ Value(input) > MAX
  /\ Value(Prefix(input, Len(input) - 1)) <= MAX
  /\ decoded = Err(Overflow)

\* C5: the error decode returns is that of the first failing position of a
\* left-to-right scan: NonAlphanumeric if the character there is outside the
\* alphabet (even when the arithmetic for it would overflow), Overflow
\* otherwise; no character after that position is examined; with no failing
\* position every character is examined and the result is Ok.
C5_ErrorPriority ==
  pc = "decode_ret" =>
    LET f == FirstFailure(input, 1)
    IN IF f = 0
       THEN decoded.ok /\ pos = Len(input)
       ELSE /\ pos = f
            /\ decoded = IF IsSymbol(input[f])
                         THEN Err(Overflow)
                         ELSE Err(NonAlphanumeric)

C5_Witness ==
  /\ pc = "decode_ret"
  /\ decoded = Err(Overflow)
  /\ pos < Len(input)
  /\ FirstBad(input, 1) > pos

\* C6: for a string s of symbols with decode(s) = Ok(v), encode(v) is s
\* without its leading 'A' characters; it equals s exactly when s is empty or
\* does not start with 'A'.
C6_Canonical ==
  (pc = "encode_ret" /\ last.fn = "decode" /\ last.ret = Ok(num))
    => /\ encoded = StripLeadingA(last.input)
       /\ (encoded = last.input)
            <=> (last.input = << >> \/ last.input[1] # "A")

C6_Witness ==
  /\ pc = "encode_ret"
  /\ last.fn = "decode"
  /\ last.ret = Ok(num)
  /\ Len(last.input) >= 3
  /\ last.input[1] = "A"
  /\ encoded # << >>
  /\ encoded = StripLeadingA(last.input)

\* C7: the alphabet has 62 pairwise distinct symbols; decode of the
\* one-character string of the symbol with digit value i returns Ok(i), and
\* encode(i) for i in 1..61 is that one-character string.
C7_Alphabet ==
  /\ Len(ALPHANUMERIC) = 62
  /\ Cardinality(AlphaChars) = 62
  /\ (pc = "decode_ret" /\ Len(input) = 1 /\ IsSymbol(input[1]))
       => decoded = Ok(DigitValue(input[1]))
  /\ (pc = "encode_ret" /\ num \in 1..61) => encoded = << SymbolAt(num) >>

C7_Witness ==
  /\ pc = "decode_ret"
  /\ input = << "9" >>
  /\ decoded = Ok(61)

\* C8: for n in 1..MAX, encode(n) is a non-empty string of symbols that does
\* not start with 'A', whose k-th character from the right is the symbol of
\* (n div 62^k) mod 62 and whose positional value is n; encode(7) = "H" and
\* encode(123) = "B9".
C8_Numeral ==
  (pc = "encode_ret" /\ num >= 1)
    => /\ encoded # << >>
       /\ AllSymbols(encoded)
       /\ encoded[1] # "A"
       /\ \A k \in 0..(Len(encoded) - 1) :
            encoded[Len(encoded) - k] = SymbolAt((num \div Pow(BASE, k)) % BASE)
       /\ Value(encoded) = num
       /\ num = 7 => encoded = << "H" >>
       /\ num = 123 => encoded = << "B", "9" >>

C8_Witness ==
  /\ pc = "encode_ret"
  /\ num = 123
  /\ encoded = << "B", "9" >>

\* C9: for a < b, encode(a) is no longer than encode(b).
C9_LengthMonotone ==
  (pc = "encode_ret" /\ last.fn = "encode")
    => /\ last.num < num => Len(last.ret) <= Len(encoded)
       /\ num < last.num => Len(encoded) <= Len(last.ret)

C9_Witness ==
  /\ pc = "encode_ret"
  /\ last.fn = "encode"
  /\ last.num = BASE + 1
  /\ num = BASE * BASE
  /\ Len(last.ret) = 2
  /\ Len(encoded) = 3

\* C10: every call of encode returns; each iteration makes n strictly
\* smaller, the alphabet lookup of the remainder always finds a character (the
\* unreachable branch is never taken), and the loop ends with n = 0 after as
\* many iterations as num has base-62 digits.
C10_EncodeTerminates ==
  /\ [][EncodeStep => (n' < n /\ n' = (n - (n % BASE)) \div BASE
                        /\ Len(digits') = Len(digits) + 1)]_vars
  /\ [](pc # "panic")
  /\ []((pc = "encode_loop" /\ n > 0) => to_char(n % BASE).some)
  /\ [](pc = "encode_ret" => (n = 0 /\ Len(digits) = DigitCount(num)))
  /\ (pc = "encode_loop") ~> (pc = "encode_ret")

C10_Witness ==
  /\ pc = "encode_ret"
  /\ num = MAX
  /\ n = 0
  /\ Len(digits) = DigitCount(MAX)
  /\ Len(digits) >= 2
====
